---------------------------- MODULE Spec2Model ----------------------------
(***************************************************************************)
(* A model of step2/src/server/server.py: the Shakesapp gRPC server.       *)
(*                                                                         *)
(* Texts, lines and queries are sequences of one-character strings, so     *)
(* that splitting, lowercasing and pattern matching are computed rather    *)
(* than assumed.  A blob is a sequence of bytes; the bytes of the model    *)
(* are the ASCII characters of the text alphabet plus one byte, BAD, that  *)
(* no UTF-8 text contains.                                                 *)
(*                                                                         *)
(* Two specifications share the state and the operators:                   *)
(*   Spec     the server with its handler pool, each handler advancing     *)
(*            statement by statement, interleaved with the other calls;    *)
(*   SpecSeq  one call served without interleaving, over a larger set of   *)
(*            corpora and queries.                                         *)
(***************************************************************************)
EXTENDS Integers, Sequences, FiniteSets, TLC

VARIABLES
    corpus,     \* the blobs under BUCKET_PREFIX, in listing order (a fixed snapshot)
    calls       \* call id -> the call's request, position, locals, log and span

vars == <<corpus, calls>>

---------------------------------------------------------------------------
(* Bounds of the model. *)

\* Corpora of SpecSeq hold at most this many documents and characters together.
MaxCorpusSize == 4
\* Queries of SpecSeq have at most this many characters.
MaxQueryLen == 2
\* Spec: the calls that are sent, the size of a corpus, the length of a query.
MaxCalls == 2
MaxSrvCorpusSize == 3
MaxSrvQueryLen == 1

\* futures.ThreadPoolExecutor(max_workers=4): the handlers of the gRPC server.
MaxHandlers == 4
\* futures.ThreadPoolExecutor(max_workers=8): the downloads of one fetch.
MaxWorkers == 8

---------------------------------------------------------------------------
(* Characters. *)

NL == "\n"
\* A byte that occurs in no UTF-8 encoding (0xFF).
BAD == "xFF"

\* The characters documents are drawn from, and those queries are drawn from.
TextChars == {"a", "b", "A", NL}
QueryChars == {"a", "A", ".", "[", "]"}

\* str.lower() on the letters that occur in the model.
Lowercase == [A |-> "a", B |-> "b", E |-> "e", L |-> "l", O |-> "o", V |-> "v"]

LowerChar(ch) == IF ch \in DOMAIN Lowercase THEN Lowercase[ch] ELSE ch

Lower(s) == [i \in 1..Len(s) |-> LowerChar(s[i])]

---------------------------------------------------------------------------
(* text.split("\n"): the segments between newlines; one more segment than  *)
(* there are newlines, so the empty text splits into one empty line.       *)

NewlinesOf(text) == {i \in 1..Len(text) : text[i] = NL}

RECURSIVE SplitDropEmpty(_)
SplitDropEmpty(text) ==
    IF text = <<>> THEN <<>>
    ELSE IF NewlinesOf(text) = {} THEN <<text>>
    ELSE LET n == CHOOSE i \in NewlinesOf(text) : \A j \in NewlinesOf(text) : i <= j
             rest == SplitDropEmpty(SubSeq(text, n + 1, Len(text)))
         IN  IF n = 1 THEN rest ELSE <<SubSeq(text, 1, n - 1)>> \o rest

RECURSIVE Split(_)
Split(text) ==
    IF NewlinesOf(text) = {} THEN <<text>>
    ELSE LET n == CHOOSE i \in NewlinesOf(text) : \A j \in NewlinesOf(text) : i <= j
         IN  <<SubSeq(text, 1, n - 1)>> \o Split(SubSeq(text, n + 1, Len(text)))

---------------------------------------------------------------------------
(* bytes.decode("utf-8"): fails on a byte sequence that is not UTF-8; an   *)
(* ASCII byte decodes to the character of the same code.                   *)

Decode(bytes) ==
    IF \E i \in 1..Len(bytes) : bytes[i] = BAD
    THEN [ok |-> FALSE, text |-> <<>>]
    ELSE [ok |-> TRUE, text |-> bytes]

---------------------------------------------------------------------------
(* re.search(pattern, line) for patterns over QueryChars: a literal, "."   *)
(* (any character but a newline) and a character set "[...]".  A "]" right *)
(* after the opening "[" is a member of the set; a set that is not closed  *)
(* is an error (re.error: unterminated character set).  A "]" outside a    *)
(* set is a literal.                                                       *)

\* The index of the "]" that closes the set opened at i, or 0.
ClassEnd(p, i) ==
    LET closers == {j \in (i + 2)..Len(p) : p[j] = "]"}
    IN  IF closers = {} THEN 0
        ELSE CHOOSE j \in closers : \A k \in closers : j <= k

RECURSIVE ParseFrom(_, _)
ParseFrom(p, i) ==
    IF i > Len(p) THEN [ok |-> TRUE, items |-> <<>>]
    ELSE IF p[i] = "["
    THEN LET close == ClassEnd(p, i)
         IN  IF close = 0 THEN [ok |-> FALSE, items |-> <<>>]
             ELSE LET rest == ParseFrom(p, close + 1)
                  IN  [ok |-> rest.ok,
                       items |-> <<[any |-> FALSE,
                                    chars |-> {p[k] : k \in (i + 1)..(close - 1)}]>>
                                 \o rest.items]
    ELSE LET rest == ParseFrom(p, i + 1)
         IN  [ok |-> rest.ok,
              items |-> <<[any |-> p[i] = ".", chars |-> {p[i]}]>> \o rest.items]

Compile(p) == ParseFrom(p, 1)

Accepts(item, ch) == IF item.any THEN ch # NL ELSE ch \in item.chars

MatchAt(items, line, i) ==
    \A k \in 1..Len(items) : Accepts(items[k], line[i + k - 1])

\* A search of the pattern taken literally, as line.find(pattern) would do.
SearchLiteral(pattern, line) ==
    [ok |-> TRUE,
     matched |-> \E i \in 1..(Len(line) + 1 - Len(pattern)) :
                    \A k \in 1..Len(pattern) : line[i + k - 1] = pattern[k]]

\* A search that falls back to the literal text when the pattern does not compile.
SearchFallback(pattern, line) ==
    LET re == Compile(pattern)
    IN  IF ~re.ok THEN SearchLiteral(pattern, line)
        ELSE [ok |-> TRUE,
              matched |-> \E i \in 1..(Len(line) + 1 - Len(re.items)) :
                             MatchAt(re.items, line, i)]

Search(pattern, line) ==
    LET re == Compile(pattern)
    IN  IF ~re.ok THEN [ok |-> FALSE, matched |-> FALSE]
        ELSE [ok |-> TRUE,
              matched |-> \E i \in 1..(Len(line) + 1 - Len(re.items)) :
                             MatchAt(re.items, line, i)]

---------------------------------------------------------------------------
(* Log events (logger.info) and RPC outcomes.                              *)

LogQuery(q) == [ev |-> "query", q |-> q, n |-> 0]
LogFiles(n) == [ev |-> "number of files", q |-> <<>>, n |-> n]
LogMatched(q, c) == [ev |-> "matched count", q |-> q, n |-> c]

\* A call that has not been sent yet.
IdleCall ==
    [method |-> "none", query |-> <<>>, service |-> "", pc |-> "idle",
     status |-> "PENDING", err |-> "", sent |-> <<>>,
     log |-> <<>>, events |-> <<>>,
     io |-> [bucket |-> TRUE, list |-> TRUE, lost |-> {}],
     blobs |-> <<>>, results |-> <<>>, texts |-> <<>>,
     ti |-> 0, lines |-> <<>>, count |-> 0]

\* What the storage client does during one fetch: get_bucket returns or
\* raises, list_blobs returns or raises, and the downloads in lost raise.
StorageRuns(n) ==
    {[bucket |-> FALSE, list |-> TRUE, lost |-> {}],
     [bucket |-> TRUE, list |-> FALSE, lost |-> {}]}
    \cup {[bucket |-> TRUE, list |-> TRUE, lost |-> F] : F \in SUBSET (1..n)}

---------------------------------------------------------------------------
(* read_files_multi, run to its end.                                       *)

\* The futures of the downloads, once the executor has shut down.
Downloaded(store, io) ==
    [i \in 1..Len(store) |->
        IF i \in io.lost THEN [state |-> "failed", bytes |-> <<>>]
        ELSE [state |-> "ok", bytes |-> store[i]]]

\* A collection that leaves out the downloads that failed or do not decode.
CollectSkipping(results) ==
    LET good == {i \in 1..Len(results) :
                    results[i].state = "ok" /\ Decode(results[i].bytes).ok}
        RECURSIVE Keep(_)
        Keep(i) == IF i > Len(results) THEN <<>>
                   ELSE IF i \in good THEN <<Decode(results[i].bytes).text>> \o Keep(i + 1)
                   ELSE Keep(i + 1)
    IN  [ok |-> TRUE, err |-> "", texts |-> Keep(1)]

\* [r.result().decode("utf-8") for r in results]: in order, and the first
\* future that holds an exception, or bytes that do not decode, raises.
Collect(results) ==
    LET bad == {i \in 1..Len(results) :
                    results[i].state # "ok" \/ ~Decode(results[i].bytes).ok}
    IN  IF bad = {}
        THEN [ok |-> TRUE, err |-> "",
              texts |-> [i \in 1..Len(results) |-> Decode(results[i].bytes).text]]
        ELSE LET first == CHOOSE i \in bad : \A j \in bad : i <= j
             IN  [ok |-> FALSE,
                  err |-> IF results[first].state = "ok" THEN "UnicodeDecodeError"
                          ELSE "download",
                  texts |-> <<>>]

ReadFilesMulti(store, io) ==
    IF ~io.bucket
    THEN [ok |-> FALSE, err |-> "get_bucket", texts |-> <<>>, log |-> <<>>]
    ELSE IF ~io.list
    THEN [ok |-> FALSE, err |-> "list_blobs", texts |-> <<>>, log |-> <<>>]
    ELSE LET got == Collect(Downloaded(store, io))
         IN  [ok |-> got.ok, err |-> got.err, texts |-> got.texts,
              log |-> <<LogFiles(Len(store))>>]

---------------------------------------------------------------------------
(* The counting loop of GetMatchCount.                                     *)

\* An iteration that adds every place of the line where the pattern matches.
CountLineAll(query, line, count) ==
    LET low == Lower(line)
        re == Compile(query)
    IN  IF ~re.ok THEN [ok |-> FALSE, count |-> count]
        ELSE [ok |-> TRUE,
              count |-> count + Cardinality({i \in 1..(Len(low) + 1 - Len(re.items)) :
                                                MatchAt(re.items, low, i)})]

\* One iteration of the inner loop: the count after the line, or the
\* re.error that re.search raises.
CountLine(query, line, count) ==
    LET m == Search(query, Lower(line))
    IN  IF ~m.ok THEN [ok |-> FALSE, count |-> count]
        ELSE [ok |-> TRUE, count |-> IF m.matched THEN count + 1 ELSE count]

RECURSIVE CountLines(_, _, _)
CountLines(query, lines, count) ==
    IF lines = <<>> THEN [ok |-> TRUE, count |-> count]
    ELSE LET r == CountLine(query, Head(lines), count)
         IN  IF ~r.ok THEN r ELSE CountLines(query, Tail(lines), r.count)

RECURSIVE CountTexts(_, _, _)
CountTexts(query, texts, count) ==
    IF texts = <<>> THEN [ok |-> TRUE, count |-> count]
    ELSE LET r == CountLines(query, Split(Head(texts)), count)
         IN  IF ~r.ok THEN r ELSE CountTexts(query, Tail(texts), r.count)

---------------------------------------------------------------------------
(* GetMatchCount served from its first statement to its return or raise.   *)

\* The query used as the request holds it.
LoopQueryRaw(q) == q

\* query = request.query.lower(): the query as the counting loop and the
\* last log event use it.
LoopQuery(q) == Lower(q)

\* A handler whose thread is not given back when the fetch raises.
GetMatchCountRunHeld(store, q, io) ==
    LET base == [IdleCall EXCEPT !.method = "GetMatchCount", !.query = q,
                                 !.io = io, !.pc = "done"]
        fetch == ReadFilesMulti(store, io)
        query == LoopQuery(q)
        loop == CountTexts(query, fetch.texts, 0)
    IN  IF ~fetch.ok
        THEN [base EXCEPT !.pc = "raised", !.status = "ERROR", !.err = fetch.err,
                          !.log = <<LogQuery(q)>> \o fetch.log]
        ELSE IF ~loop.ok
        THEN [base EXCEPT !.status = "ERROR", !.err = "re.error",
                          !.log = <<LogQuery(q)>> \o fetch.log,
                          !.events = <<"count_start">>]
        ELSE [base EXCEPT !.status = "OK",
                          !.sent = <<[match_count |-> loop.count]>>,
                          !.log = <<LogQuery(q)>> \o fetch.log
                                   \o <<LogMatched(query, loop.count)>>,
                          !.events = <<"count_start", "count_end">>]

GetMatchCountRun(store, q, io) ==
    LET base == [IdleCall EXCEPT !.method = "GetMatchCount", !.query = q,
                                 !.io = io, !.pc = "done"]
        fetch == ReadFilesMulti(store, io)
        query == LoopQuery(q)
        loop == CountTexts(query, fetch.texts, 0)
    IN  IF ~fetch.ok
        THEN [base EXCEPT !.status = "ERROR", !.err = fetch.err,
                          !.log = <<LogQuery(q)>> \o fetch.log]
        ELSE IF ~loop.ok
        THEN [base EXCEPT !.status = "ERROR", !.err = "re.error",
                          !.log = <<LogQuery(q)>> \o fetch.log,
                          !.events = <<"count_start">>]
        ELSE [base EXCEPT !.status = "OK",
                          !.sent = <<[match_count |-> loop.count]>>,
                          !.log = <<LogQuery(q)>> \o fetch.log
                                   \o <<LogMatched(query, loop.count)>>,
                          !.events = <<"count_start", "count_end">>]

---------------------------------------------------------------------------
(* The inputs of SpecSeq.                                                  *)

Strings(chars, n) == UNION {[1..k -> chars] : k \in 0..n}

\* The corpora of at most size documents and characters together.
RECURSIVE Corpora(_, _)
Corpora(chars, size) ==
    IF size = 0 THEN {<<>>}
    ELSE {<<>>} \cup
         UNION {{<<d>> \o rest : rest \in Corpora(chars, size - 1 - Len(d))} :
                    d \in Strings(chars, size - 1)}

\* The scenarios of the specification's section 8.
ToBe == <<"t","o"," ","b","e"," ","o","r"," ","n","o","t"," ","t","o"," ","b","e">>
LoveFire == <<"l","o","v","e"," ","i","s"," ","a"," ","f","i","r","e">>
LoveUpper == <<"L","O","V","E">>
LoveBlind == <<"l","o","v","e"," ","i","s"," ","b","l","i","n","d">>
Axb == <<"a","x","b">>
ScenarioCorpora == {<<ToBe, LoveFire>>, <<LoveUpper, LoveBlind>>, <<Axb>>}
ScenarioQueries == {<<"b","e">>, <<"l","o","v","e">>, <<"a",".","b">>}

SeqCorpora == Corpora(TextChars, MaxCorpusSize) \cup ScenarioCorpora
\* Queries with a character set that is closed.
SetQueries == {<<"[", "a", "]">>, <<"[", "A", "]">>, <<"[", "]", "]">>, <<"[", ".", "]">>}
SeqQueries == Strings(QueryChars, MaxQueryLen) \cup ScenarioQueries \cup SetQueries

InitSeq ==
    /\ corpus \in SeqCorpora
    /\ calls = [c \in {1} |-> IdleCall]

\* The call is sent and served to its end.
ServeGetMatchCount(c) ==
    /\ calls[c].pc = "idle"
    /\ \E q \in SeqQueries, io \in StorageRuns(Len(corpus)) :
          calls' = [calls EXCEPT ![c] = GetMatchCountRun(corpus, q, io)]
    /\ UNCHANGED corpus

NextSeq == \E c \in {1} : ServeGetMatchCount(c)

SpecSeq == InitSeq /\ [][NextSeq]_vars

---------------------------------------------------------------------------
(* The health service.                                                     *)

\* HealthCheckResponse.ServingStatus, the enum of grpc.health.v1 that
\* health_pb2 declares.
ServingStatus == {"UNKNOWN", "SERVING", "NOT_SERVING", "SERVICE_UNKNOWN"}

\* health_pb2.HealthCheckResponse.<name>: the enum value of that name; a
\* name the enum does not declare raises AttributeError.
StatusAttr(name) ==
    IF name \in ServingStatus THEN [ok |-> TRUE, status |-> name]
    ELSE [ok |-> FALSE, status |-> ""]

\* A Check that answers for the services it knows only.
CheckStatusByService(service) ==
    IF service = "" THEN StatusAttr("SERVING") ELSE StatusAttr("SERVICE_UNKNOWN")

\* The status Check answers with; the request is not read.
CheckStatus(service) == StatusAttr("SERVING")

\* The status Watch answers with.
WatchStatus(service) == StatusAttr("UNIMPLEMENTED")

---------------------------------------------------------------------------
(* The server: calls are queued for the handler pool; a handler runs one   *)
(* call, statement by statement, interleaved with the other handlers.      *)

ServiceNames == {"", "no.such.Service"}

SrvTextChars == {"a", NL, BAD}
SrvQueryChars == {"A", "["}
SrvCorpora == Corpora(SrvTextChars, MaxSrvCorpusSize)
SrvQueries == Strings(SrvQueryChars, MaxSrvQueryLen)

Init ==
    /\ corpus \in SrvCorpora
    /\ calls = [c \in 1..MaxCalls |-> IdleCall]

Handled(c) == calls[c].pc \notin {"idle", "queued", "done"}
Running(results) == {i \in 1..Len(results) : results[i].state = "running"}
Pending(results) == {i \in 1..Len(results) : results[i].state \in {"queued", "running"}}

\* The locals of a handler are gone when it returns or raises.
Forget(call) ==
    [call EXCEPT !.blobs = <<>>, !.results = <<>>, !.texts = <<>>,
                 !.ti = 0, !.lines = <<>>, !.count = 0]

\* An exception leaves the handler: the RPC ends with an error status and
\* no response.
Raise(call, err) ==
    [Forget(call) EXCEPT !.pc = "done", !.status = "ERROR", !.err = err]

\* A count that every handler adds to: the largest count of any call.
CountSoFarShared(c) ==
    CHOOSE n \in {calls[d].count : d \in DOMAIN calls} :
        \A d \in DOMAIN calls : calls[d].count <= n

\* The handler's counter, a local of the call.
CountSoFar(c) == calls[c].count

\* A client sends a call; the calls are numbered in the order they are sent.
ArriveFrom(c, queries, methods, services) ==
    /\ calls[c].pc = "idle"
    /\ \A d \in DOMAIN calls : d < c => calls[d].pc # "idle"
    /\ \/ \E q \in queries :
            calls' = [calls EXCEPT ![c].method = "GetMatchCount",
                                   ![c].query = q, ![c].pc = "queued"]
       \/ \E m \in methods, s \in services :
            calls' = [calls EXCEPT ![c].method = m,
                                   ![c].service = s, ![c].pc = "queued"]
    /\ UNCHANGED corpus

Arrive(c, queries) == ArriveFrom(c, queries, {"Check", "Watch"}, ServiceNames)

\* A handler for every call, whatever the number of calls being handled.
StartUnbounded(c) ==
    /\ calls[c].pc = "queued"
    /\ \A d \in DOMAIN calls : d < c => calls[d].pc # "queued"
    /\ calls' = [calls EXCEPT ![c] =
          IF @.method = "GetMatchCount"
          THEN [@ EXCEPT !.pc = "get_bucket", !.log = <<LogQuery(calls[c].query)>>]
          ELSE IF @.method = "Check" THEN [@ EXCEPT !.pc = "check"]
          ELSE [@ EXCEPT !.pc = "watch"]]
    /\ UNCHANGED corpus

\* A free handler takes the call that has waited longest.  GetMatchCount
\* starts with logger.info(f"query: {request.query}").
Start(c) ==
    /\ calls[c].pc = "queued"
    /\ \A d \in DOMAIN calls : d < c => calls[d].pc # "queued"
    /\ Cardinality({d \in DOMAIN calls : Handled(d)}) < MaxHandlers
    /\ calls' = [calls EXCEPT ![c] =
          IF @.method = "GetMatchCount"
          THEN [@ EXCEPT !.pc = "get_bucket", !.log = <<LogQuery(calls[c].query)>>]
          ELSE IF @.method = "Check" THEN [@ EXCEPT !.pc = "check"]
          ELSE [@ EXCEPT !.pc = "watch"]]
    /\ UNCHANGED corpus

\* client.get_bucket(BUCKET_NAME) returns or raises.
GetBucket(c) ==
    /\ calls[c].pc = "get_bucket"
    /\ \/ calls' = [calls EXCEPT ![c].pc = "list_blobs"]
       \/ calls' = [calls EXCEPT ![c] =
                        Raise([@ EXCEPT !.io.bucket = FALSE], "get_bucket")]
    /\ UNCHANGED corpus

\* A listing whose failure is answered with no blobs.
ListBlobsLenient(c) ==
    /\ calls[c].pc = "list_blobs"
    /\ \/ calls' = [calls EXCEPT ![c].pc = "submit", ![c].blobs = corpus]
       \/ calls' = [calls EXCEPT ![c].pc = "submit", ![c].blobs = <<>>,
                                 ![c].io.list = FALSE]
    /\ UNCHANGED corpus

\* blobs = list(client.list_blobs(...)) returns the listing or raises.
ListBlobs(c) ==
    /\ calls[c].pc = "list_blobs"
    /\ \/ calls' = [calls EXCEPT ![c].pc = "submit", ![c].blobs = corpus]
       \/ calls' = [calls EXCEPT ![c] =
                        Raise([@ EXCEPT !.io.list = FALSE], "list_blobs")]
    /\ UNCHANGED corpus

\* One turn of the submit loop: the next blob's download is queued on the
\* executor; after the last blob the handler calls executor.shutdown().
Submit(c) ==
    /\ calls[c].pc = "submit"
    /\ IF Len(calls[c].results) < Len(calls[c].blobs)
       THEN calls' = [calls EXCEPT ![c].results =
                        Append(@, [state |-> "queued", bytes |-> <<>>])]
       ELSE calls' = [calls EXCEPT ![c].pc = "shutdown"]
    /\ UNCHANGED corpus

\* A download started whatever the number of downloads running.
DownloadStartUnbounded(c, i) ==
    /\ i \in 1..Len(calls[c].results)
    /\ calls[c].results[i].state = "queued"
    /\ \A j \in 1..(i - 1) : calls[c].results[j].state # "queued"
    /\ calls' = [calls EXCEPT ![c].results[i].state = "running"]
    /\ UNCHANGED corpus

\* A worker of the fetch's executor takes the download queued first.
DownloadStart(c, i) ==
    /\ i \in 1..Len(calls[c].results)
    /\ calls[c].results[i].state = "queued"
    /\ \A j \in 1..(i - 1) : calls[c].results[j].state # "queued"
    /\ Cardinality(Running(calls[c].results)) < MaxWorkers
    /\ calls' = [calls EXCEPT ![c].results[i].state = "running"]
    /\ UNCHANGED corpus

\* A download whose failure ends the fetch at once, the other downloads
\* left where they are.
DownloadEndFailFast(c, i) ==
    /\ i \in 1..Len(calls[c].results)
    /\ calls[c].results[i].state = "running"
    /\ \/ calls' = [calls EXCEPT ![c].results[i] =
                        [state |-> "ok", bytes |-> calls[c].blobs[i]]]
       \/ calls' = [calls EXCEPT ![c] =
                        Raise([@ EXCEPT !.io.lost = @ \cup {i}], "download")]
    /\ UNCHANGED corpus

\* blob.download_as_bytes() returns the blob's bytes or raises.
DownloadEnd(c, i) ==
    /\ i \in 1..Len(calls[c].results)
    /\ calls[c].results[i].state = "running"
    /\ \/ calls' = [calls EXCEPT ![c].results[i] =
                        [state |-> "ok", bytes |-> calls[c].blobs[i]]]
       \/ calls' = [calls EXCEPT ![c].results[i].state = "failed",
                                 ![c].io.lost = @ \cup {i}]
    /\ UNCHANGED corpus

\* executor.shutdown(wait=False): the handler goes on at once.
ShutdownNoWait(c) ==
    /\ calls[c].pc = "shutdown"
    /\ calls' = [calls EXCEPT ![c].pc = "collect",
                              ![c].log = Append(@, LogFiles(Len(calls[c].results)))]
    /\ UNCHANGED corpus

\* A shutdown that returns only when every download succeeded.
ShutdownOnSuccess(c) ==
    /\ calls[c].pc = "shutdown"
    /\ \A i \in 1..Len(calls[c].results) : calls[c].results[i].state = "ok"
    /\ calls' = [calls EXCEPT ![c].pc = "collect",
                              ![c].log = Append(@, LogFiles(Len(calls[c].results)))]
    /\ UNCHANGED corpus

\* executor.shutdown() returns when no download is queued or running; then
\* logger.info(f"number of files: {len(results)}").
Shutdown(c) ==
    /\ calls[c].pc = "shutdown"
    /\ Pending(calls[c].results) = {}
    /\ calls' = [calls EXCEPT ![c].pc = "collect",
                              ![c].log = Append(@, LogFiles(Len(calls[c].results)))]
    /\ UNCHANGED corpus

\* return [r.result().decode("utf-8") for r in results]
CollectResults(c) ==
    /\ calls[c].pc = "collect"
    /\ LET got == Collect(calls[c].results)
       IN  calls' = [calls EXCEPT ![c] =
                IF got.ok THEN [@ EXCEPT !.pc = "span", !.texts = got.texts]
                ELSE Raise(@, got.err)]
    /\ UNCHANGED corpus

\* count = 0; the span "matchcount" opens; add_event("count_start").
SpanStart(c) ==
    /\ calls[c].pc = "span"
    /\ calls' = [calls EXCEPT ![c].pc = "count", ![c].count = 0,
                              ![c].ti = 0, ![c].lines = <<>>,
                              ![c].events = Append(@, "count_start")]
    /\ UNCHANGED corpus

\* A loop that records count_end also when re.search raises.
CountStepFinally(c) ==
    /\ calls[c].pc = "count"
    /\ calls[c].lines # <<>> \/ calls[c].ti < Len(calls[c].texts)
    /\ LET next == calls[c].lines = <<>>
           ls == IF next THEN Split(calls[c].texts[calls[c].ti + 1]) ELSE calls[c].lines
           r == CountLine(LoopQuery(calls[c].query), Head(ls), calls[c].count)
       IN  calls' = [calls EXCEPT ![c] =
                IF r.ok
                THEN [@ EXCEPT !.count = r.count, !.lines = Tail(ls),
                               !.ti = IF next THEN @ + 1 ELSE @]
                ELSE Raise([@ EXCEPT !.events = Append(@, "count_end")], "re.error")]
    /\ UNCHANGED corpus

\* One turn of the inner loop, on the next line: of the text at hand, or
\* the first line of the next text, split on the newline.
CountStep(c) ==
    /\ calls[c].pc = "count"
    /\ calls[c].lines # <<>> \/ calls[c].ti < Len(calls[c].texts)
    /\ LET next == calls[c].lines = <<>>
           ls == IF next THEN Split(calls[c].texts[calls[c].ti + 1]) ELSE calls[c].lines
           r == CountLine(LoopQuery(calls[c].query), Head(ls), CountSoFar(c))
       IN  calls' = [calls EXCEPT ![c] =
                IF r.ok
                THEN [@ EXCEPT !.count = r.count, !.lines = Tail(ls),
                               !.ti = IF next THEN @ + 1 ELSE @]
                ELSE Raise(@, "re.error")]
    /\ UNCHANGED corpus

\* A count_end recorded inside the loop, whatever is left to test.
SpanEndEarly(c) ==
    /\ calls[c].pc = "count"
    /\ calls' = [calls EXCEPT ![c].pc = "return",
                              ![c].events = Append(@, "count_end")]
    /\ UNCHANGED corpus

\* The loops are over: add_event("count_end"), and the span closes.
SpanEnd(c) ==
    /\ calls[c].pc = "count"
    /\ calls[c].lines = <<>> /\ calls[c].ti = Len(calls[c].texts)
    /\ calls' = [calls EXCEPT ![c].pc = "return",
                              ![c].events = Append(@, "count_end")]
    /\ UNCHANGED corpus

\* logger.info(f"query '{query}' matched count: {count}") and the response.
Return(c) ==
    /\ calls[c].pc = "return"
    /\ calls' = [calls EXCEPT ![c] =
          [Forget(@) EXCEPT
              !.pc = "done", !.status = "OK",
              !.log = Append(@, LogMatched(LoopQuery(calls[c].query), CountSoFar(c))),
              !.sent = <<[match_count |-> CountSoFar(c)]>>]]
    /\ UNCHANGED corpus

\* A Check answered by the server's own thread, waiting or not for a handler.
CheckInline(c) ==
    /\ calls[c].method = "Check"
    /\ calls[c].pc \in {"queued", "check"}
    /\ LET st == CheckStatus(calls[c].service)
       IN  calls' = [calls EXCEPT ![c] =
                IF st.ok
                THEN [@ EXCEPT !.pc = "done", !.status = "OK",
                               !.sent = <<[status |-> st.status]>>]
                ELSE Raise(@, "AttributeError")]
    /\ UNCHANGED corpus

\* Check builds its response and returns it.
Check(c) ==
    /\ calls[c].pc = "check"
    /\ LET st == CheckStatus(calls[c].service)
       IN  calls' = [calls EXCEPT ![c] =
                IF st.ok
                THEN [@ EXCEPT !.pc = "done", !.status = "OK",
                               !.sent = <<[status |-> st.status]>>]
                ELSE Raise(@, "AttributeError")]
    /\ UNCHANGED corpus

\* Watch builds its response and returns it.
Watch(c) ==
    /\ calls[c].pc = "watch"
    /\ LET st == WatchStatus(calls[c].service)
       IN  calls' = [calls EXCEPT ![c] =
                IF st.ok
                THEN [@ EXCEPT !.pc = "done", !.status = "OK",
                               !.sent = <<[status |-> st.status]>>]
                ELSE Raise(@, "AttributeError")]
    /\ UNCHANGED corpus

\* A step of the handler of call c, or of one of its downloads.
Handle(c) ==
    \/ Start(c)
    \/ GetBucket(c)
    \/ ListBlobs(c)
    \/ Submit(c)
    \/ \E i \in 1..Len(calls[c].results) : DownloadStart(c, i)
    \/ \E i \in 1..Len(calls[c].results) : DownloadEnd(c, i)
    \/ Shutdown(c)
    \/ CollectResults(c)
    \/ SpanStart(c)
    \/ CountStep(c)
    \/ SpanEnd(c)
    \/ Return(c)
    \/ Check(c)
    \/ Watch(c)

Next == \E c \in 1..MaxCalls : Arrive(c, SrvQueries) \/ Handle(c)

Spec == Init /\ [][Next]_vars

---------------------------------------------------------------------------
(* The lines of a corpus, stated without the loop: line k of a text is the *)
(* run of characters that have k - 1 newlines before them.                 *)

TextOf(store, d) == Decode(store[d]).text

LinesOf(store) ==
    UNION {{<<d, k>> : k \in 1..(Cardinality(NewlinesOf(TextOf(store, d))) + 1)} :
              d \in 1..Len(store)}

LineAt(text, k) ==
    LET pos == {i \in 1..Len(text) :
                  /\ text[i] # NL
                  /\ Cardinality({j \in NewlinesOf(text) : j < i}) = k - 1}
    IN  IF pos = {} THEN <<>>
        ELSE SubSeq(text, CHOOSE i \in pos : \A j \in pos : i <= j,
                          CHOOSE i \in pos : \A j \in pos : i >= j)

Line(store, dk) == LineAt(TextOf(store, dk[1]), dk[2])

Finished(c) == calls[c].pc = "done"
Succeeded(c) == Finished(c) /\ calls[c].status = "OK"
Failed(c) == Finished(c) /\ calls[c].status = "ERROR"
IsCount(c) == calls[c].method = "GetMatchCount"
Returned(c, n) == calls[c].sent = <<[match_count |-> n]>>
WellFormed(q) == Compile(q).ok

---------------------------------------------------------------------------
(* Properties of the counting, checked under SpecSeq.                      *)

MatchingLines(store, q) ==
    {dk \in LinesOf(store) : Search(Lower(q), Lower(Line(store, dk))).matched}

\* C1: a successful GetMatchCount(q) with a well-formed q returns the number
\* of lines, over all documents split on the newline, whose lowercased form
\* contains a match of lowercase(q); a line is counted once however many
\* matches it holds, and equal lines are each counted.
C1_CountIsMatchingLines ==
    \A c \in DOMAIN calls :
        (IsCount(c) /\ Succeeded(c) /\ WellFormed(calls[c].query))
            => Returned(c, Cardinality(MatchingLines(corpus, calls[c].query)))

\* "to be or not to be" holds "be" twice and is counted once.
C1_Witness ==
    \E c \in DOMAIN calls :
        /\ IsCount(c) /\ Succeeded(c)
        /\ corpus = <<ToBe, LoveFire>>
        /\ calls[c].query = <<"b", "e">>
        /\ Returned(c, 1)

\* C7 as stated: a malformed query makes the call fail and return no
\* count, whatever the corpus contains.
C7_Original ==
    \A c \in DOMAIN calls :
        (IsCount(c) /\ Finished(c) /\ ~WellFormed(Lower(calls[c].query)))
            => (calls[c].status = "ERROR" /\ calls[c].sent = <<>>)

\* C7, amended: a query whose lowercased form is malformed makes the call
\* fail with no count whenever at least one object is listed; when the
\* listing is empty no line is tested, and a call whose fetch succeeds
\* returns the count 0.  A call that fails in the counting loop fails only
\* on such a query (no sanitization, no literal fallback).
C7_MalformedFailsUnlessNoDocument ==
    \A c \in DOMAIN calls :
        (IsCount(c) /\ Finished(c) /\ ~WellFormed(Lower(calls[c].query)))
            => /\ Len(corpus) > 0 => (calls[c].status = "ERROR" /\ calls[c].sent = <<>>)
               /\ (Len(corpus) = 0 /\ ReadFilesMulti(corpus, calls[c].io).ok)
                     => (calls[c].status = "OK" /\ Returned(c, 0))
               /\ ReadFilesMulti(corpus, calls[c].io).ok /\ Len(corpus) > 0
                     => calls[c].err = "re.error"

\* An unbalanced bracket against a corpus that was fetched whole.
C7_Witness ==
    \E c \in DOMAIN calls :
        /\ IsCount(c) /\ Failed(c)
        /\ calls[c].query = <<"[", "a">>
        /\ Len(corpus) = 2
        /\ calls[c].io.lost = {} /\ calls[c].io.bucket /\ calls[c].io.list
        /\ calls[c].err = "re.error"
        /\ calls[c].sent = <<>>

NonEmptyLines(store) == {dk \in LinesOf(store) : Line(store, dk) # <<>>}

\* C8 as stated: the empty query returns the number of non-empty lines.
C8_Original ==
    \A c \in DOMAIN calls :
        (IsCount(c) /\ Succeeded(c) /\ calls[c].query = <<>>)
            => Returned(c, Cardinality(NonEmptyLines(corpus)))

\* C8, amended: the empty query returns the number of lines of the corpus,
\* the empty lines included: each document counts one more than the
\* newlines it holds.
C8_EmptyQueryCountsEveryLine ==
    \A c \in DOMAIN calls :
        (IsCount(c) /\ Succeeded(c) /\ calls[c].query = <<>>)
            => Returned(c, Cardinality(LinesOf(corpus)))

\* A corpus with an empty line and a non-empty line: both are counted.
C8_Witness ==
    \E c \in DOMAIN calls :
        /\ IsCount(c) /\ Succeeded(c) /\ calls[c].query = <<>>
        /\ corpus = <<<<"a", NL>>, <<>>>>
        /\ Returned(c, 3)

\* A pattern of literals and dots matches where every literal is met and
\* every dot meets a character.
DotFree(q) == \A i \in 1..Len(q) : q[i] \notin {"[", "]"}
DotMatch(p, line) ==
    \E i \in 0..(Len(line) - Len(p)) :
        \A k \in 1..Len(p) : p[k] = "." \/ p[k] = line[i + k]
Contains(line, p) ==
    \E i \in 0..(Len(line) - Len(p)) : \A k \in 1..Len(p) : p[k] = line[i + k]

\* C9: the query is an unanchored pattern, not a literal: "." stands for any
\* character, so a line is counted when the pattern matches somewhere in
\* it, also when the line does not contain the query's text.
C9_DotMatchesAnyCharacter ==
    \A c \in DOMAIN calls :
        (IsCount(c) /\ Succeeded(c) /\ DotFree(calls[c].query))
            => Returned(c, Cardinality({dk \in LinesOf(corpus) :
                              DotMatch(Lower(calls[c].query), Lower(Line(corpus, dk)))}))

\* The line "axb" is counted for "a.b" and does not contain "a.b".
C9_Witness ==
    \E c \in DOMAIN calls :
        /\ IsCount(c) /\ Succeeded(c)
        /\ corpus = <<Axb>>
        /\ calls[c].query = <<"a", ".", "b">>
        /\ ~Contains(Axb, calls[c].query)
        /\ Returned(c, 1)

---------------------------------------------------------------------------
(* Properties of the server, checked under Spec.                           *)

\* C2: calls do not interfere: in every interleaving, a GetMatchCount call
\* ends as it would if it ran alone against the same corpus with the same
\* storage behaviour: same status, same response, same log, same events;
\* so calls with the same query that succeed return the same count.
C2_CallsDoNotInterfere ==
    \A c \in DOMAIN calls :
        (IsCount(c) /\ Finished(c))
            => /\ calls[c] = GetMatchCountRun(corpus, calls[c].query, calls[c].io)
               /\ \A d \in DOMAIN calls :
                     (IsCount(d) /\ Succeeded(c) /\ Succeeded(d)
                        /\ calls[d].query = calls[c].query)
                     => calls[d].sent = calls[c].sent

\* The second call has returned its count while the first, sent before it
\* with the same query, is still in its counting loop with a line counted.
C2_Witness ==
    /\ IsCount(1) /\ IsCount(2)
    /\ calls[1].query = calls[2].query
    /\ calls[1].pc = "count" /\ calls[1].count = 1
    /\ Succeeded(2) /\ Returned(2, 2)

\* C3: Check answers SERVING for every service name, the empty and the
\* unknown included, in every state of the server.
C3_CheckAlwaysServing ==
    \A c \in DOMAIN calls :
        (calls[c].method = "Check" /\ Finished(c))
            => (calls[c].status = "OK" /\ calls[c].sent = <<[status |-> "SERVING"]>>)

\* Check has answered for an unknown service after a GetMatchCount call
\* failed.
C3_Witness ==
    /\ IsCount(1) /\ Failed(1)
    /\ calls[2].method = "Check" /\ calls[2].service = "no.such.Service"
    /\ Succeeded(2)

\* C4: every Watch call delivers exactly one status value, UNIMPLEMENTED,
\* and then its stream ends.
C4_WatchDeliversUnimplemented ==
    \A c \in DOMAIN calls :
        (calls[c].method = "Watch" /\ Finished(c))
            => calls[c].sent = <<[status |-> "UNIMPLEMENTED"]>>

\* C5: when the bucket lookup or the listing fails, the call ends at once
\* (no second attempt) in an RPC failure without a response; the fetch went
\* no further, so the only log event is the query.
C5_ListFailureFailsTheCall ==
    \A c \in DOMAIN calls :
        (IsCount(c) /\ (~calls[c].io.bucket \/ ~calls[c].io.list))
            => /\ Failed(c)
               /\ calls[c].sent = <<>>
               /\ calls[c].err \in {"get_bucket", "list_blobs"}
               /\ calls[c].log = <<LogQuery(calls[c].query)>>

\* The listing of a corpus of two blobs failed.
C5_Witness ==
    \E c \in DOMAIN calls :
        /\ IsCount(c) /\ Failed(c)
        /\ calls[c].io.bucket /\ ~calls[c].io.list
        /\ Len(corpus) = 2

Undecodable(store) == {i \in 1..Len(store) : ~Decode(store[i]).ok}

\* C6: no partial result: when a download fails or a blob is not UTF-8, the
\* call fails without a response, whatever happened to the other blobs; a
\* call that succeeds returns the count over every document of the corpus.
C6_NoPartialResult ==
    \A c \in DOMAIN calls :
        (IsCount(c) /\ Finished(c))
            => /\ (calls[c].io.lost # {}
                     \/ (calls[c].io.bucket /\ calls[c].io.list /\ Undecodable(corpus) # {}))
                  => (calls[c].status = "ERROR" /\ calls[c].sent = <<>>)
               /\ calls[c].status = "OK"
                  => /\ calls[c].io.lost = {} /\ Undecodable(corpus) = {}
                     /\ Returned(c, Cardinality(MatchingLines(corpus, calls[c].query)))

\* The first of two blobs is not UTF-8; the second was downloaded and
\* decodes.
C6_Witness ==
    \E c \in DOMAIN calls :
        /\ IsCount(c) /\ Failed(c)
        /\ Len(corpus) = 2 /\ Undecodable(corpus) = {1}
        /\ calls[c].io.lost = {}
        /\ calls[c].err = "UnicodeDecodeError"
        /\ calls[c].sent = <<>>

\* C10 as stated: the three log events of a successful call, the first and
\* the third with the same query string.
C10_Original ==
    \A c \in DOMAIN calls :
        (IsCount(c) /\ Succeeded(c))
            => \E n \in 0..Cardinality(LinesOf(corpus)) :
                  /\ Returned(c, n)
                  /\ calls[c].log = <<LogQuery(calls[c].query),
                                      LogFiles(Len(corpus)),
                                      LogMatched(calls[c].query, n)>>

\* C10, amended: a successful call emits exactly three log events, in this
\* order: the query as the request holds it, the number of objects listed,
\* and the lowercased query with the count of the response.
C10_ThreeLogEvents ==
    \A c \in DOMAIN calls :
        (IsCount(c) /\ Succeeded(c))
            => \E n \in 0..Cardinality(LinesOf(corpus)) :
                  /\ Returned(c, n)
                  /\ calls[c].log = <<LogQuery(calls[c].query),
                                      LogFiles(Len(corpus)),
                                      LogMatched(Lower(calls[c].query), n)>>

\* The query "A" is logged as "A" first and as "a" with the count.
C10_Witness ==
    \E c \in DOMAIN calls :
        /\ IsCount(c) /\ Succeeded(c)
        /\ calls[c].query = <<"A">>
        /\ corpus = <<<<"a">>, <<>>>>
        /\ calls[c].log[1].q = <<"A">>
        /\ calls[c].log[3].q = <<"a">>
        /\ Returned(c, 1)

---------------------------------------------------------------------------
(* What one document adds to the count, checked under SpecSeq.             *)

RemoveAt(s, d) == SubSeq(s, 1, d - 1) \o SubSeq(s, d + 1, Len(s))
Texts(store) == [d \in 1..Len(store) |-> TextOf(store, d)]

\* The count returned less the count of the corpus without document d.
Contribution(c, d, n) ==
    n - CountTexts(Lower(calls[c].query), RemoveAt(Texts(corpus), d), 0).count

LastSegment(text) ==
    LET nls == NewlinesOf(text)
    IN  IF nls = {} THEN text
        ELSE SubSeq(text, (CHOOSE i \in nls : \A j \in nls : j <= i) + 1, Len(text))
MatchingOf(text, q) ==
    {k \in 1..(Cardinality(NewlinesOf(text)) + 1) :
        Search(Lower(q), Lower(LineAt(text, k))).matched}
EndsOpen(text) == text # <<>> /\ text[Len(text)] # NL

\* C15 as stated: an empty document adds nothing to the count of any
\* query; a non-empty document without a trailing newline adds its last
\* segment as a line.
C15_Original ==
    \A c \in DOMAIN calls : \A d \in 1..Len(corpus) :
        (IsCount(c) /\ Succeeded(c))
            => \A n \in 0..Cardinality(LinesOf(corpus)) :
                  Returned(c, n) =>
                      /\ corpus[d] = <<>> => Contribution(c, d, n) = 0
                      /\ EndsOpen(TextOf(corpus, d))
                            => Contribution(c, d, n) =
                                  Cardinality(MatchingOf(TextOf(corpus, d), calls[c].query))

\* C15, amended: an empty document is one empty line: it adds one to the
\* count when the pattern matches the empty string, as the empty query
\* does, and nothing otherwise.  A non-empty document without a trailing
\* newline adds its matching lines, the segment after its last newline
\* being its last line.
C15_EmptyDocumentIsOneLine ==
    \A c \in DOMAIN calls : \A d \in 1..Len(corpus) :
        (IsCount(c) /\ Succeeded(c))
            => \A n \in 0..Cardinality(LinesOf(corpus)) :
                  Returned(c, n) =>
                      LET text == TextOf(corpus, d)
                          q == calls[c].query
                      IN  /\ text = <<>>
                                => /\ Contribution(c, d, n) =
                                         IF Search(Lower(q), <<>>).matched THEN 1 ELSE 0
                                   /\ Search(Lower(q), <<>>).matched <=> q = <<>>
                          /\ EndsOpen(text)
                                => /\ Contribution(c, d, n) = Cardinality(MatchingOf(text, q))
                                   /\ LineAt(text, Cardinality(NewlinesOf(text)) + 1)
                                         = LastSegment(text)
                                   /\ LastSegment(text) # <<>>

\* The empty query against an empty document and NL "b": the empty
\* document is counted once, the segment "b" as the second line of its
\* document.
C15_Witness ==
    \E c \in DOMAIN calls :
        /\ IsCount(c) /\ Succeeded(c) /\ calls[c].query = <<>>
        /\ corpus = <<<<>>, <<NL, "b">>>>
        /\ Returned(c, 3)
        /\ Contribution(c, 1, 3) = 1
        /\ Contribution(c, 2, 3) = 2

---------------------------------------------------------------------------
(* The span, the fetch as a barrier and the failures, checked under Spec.  *)

Fetching(c) ==
    calls[c].pc \in {"get_bucket", "list_blobs", "submit", "shutdown", "collect"}
FetchedAll(c) ==
    /\ Len(calls[c].texts) = Len(corpus)
    /\ calls[c].log = <<LogQuery(calls[c].query), LogFiles(Len(corpus))>>
AllTested(c) == calls[c].lines = <<>> /\ calls[c].ti = Len(calls[c].texts)

\* C11: the span of a call carries count_start and count_end around the
\* counting: nothing is recorded during the fetch; count_start is recorded
\* once the fetch has returned and before a line is tested; count_end is
\* recorded after the last line and before the response; a successful call
\* has recorded exactly these two events.
C11_SpanBracketsCounting ==
    \A c \in DOMAIN calls :
        IsCount(c) =>
            /\ (Fetching(c) \/ calls[c].pc \in {"idle", "queued", "span"})
                  => calls[c].events = <<>>
            /\ calls[c].pc = "span"
                  => (FetchedAll(c) /\ calls[c].ti = 0 /\ calls[c].count = 0)
            /\ calls[c].pc = "count"
                  => (calls[c].events = <<"count_start">> /\ FetchedAll(c))
            /\ calls[c].pc = "return"
                  => /\ calls[c].events = <<"count_start", "count_end">>
                     /\ AllTested(c)
                     /\ calls[c].sent = <<>>
            /\ Succeeded(c) => calls[c].events = <<"count_start", "count_end">>

\* Both lines of two documents are tested, count_end is recorded and the
\* response is still to be sent.
C11_Witness ==
    \E c \in DOMAIN calls :
        /\ IsCount(c) /\ calls[c].pc = "return"
        /\ Len(calls[c].texts) = 2 /\ calls[c].ti = 2
        /\ calls[c].count = 1
        /\ calls[c].events = <<"count_start", "count_end">>

Unfinished(c) == Pending(calls[c].results)

\* C12: the fetch is a barrier: in every step in which read_files_multi
\* returns or raises, every blob listed has its download and no download is
\* queued or running; past the fetch, while the handler decodes and counts,
\* no download of the call is unfinished.
C12_FetchIsBarrier ==
    /\ [](\A c \in DOMAIN calls :
              calls[c].pc \in {"collect", "span", "count", "return"}
                  => (Unfinished(c) = {} /\ Len(calls[c].results) = Len(calls[c].blobs)))
    /\ [][\A c \in DOMAIN calls :
              (Fetching(c) /\ ~Fetching(c)')
                  => (Unfinished(c) = {} /\ Len(calls[c].results) = Len(calls[c].blobs))]_vars

\* The fetch of two blobs has returned; one download had failed.
C12_Witness ==
    \E c \in DOMAIN calls :
        /\ calls[c].pc = "collect"
        /\ Len(calls[c].results) = 2
        /\ calls[c].results[1].state = "failed"
        /\ calls[c].results[2].state = "ok"

\* C16: a failed download cancels nothing: the call goes on through the
\* fetch; it ends only from the collection of the results, when every blob
\* listed has a finished download and "number of files" is logged; and it
\* ends in an error without a response.
C16_FailedDownloadWaitsForSiblings ==
    /\ [](\A c \in DOMAIN calls :
              (IsCount(c) /\ calls[c].io.lost # {})
                  => /\ calls[c].pc \in {"submit", "shutdown", "collect", "done"}
                     /\ Finished(c)
                          => /\ calls[c].status = "ERROR" /\ calls[c].sent = <<>>
                             /\ calls[c].log = <<LogQuery(calls[c].query),
                                                 LogFiles(Len(corpus))>>)
    /\ [][\A c \in DOMAIN calls :
              (calls[c].io.lost # {} /\ ~Finished(c) /\ Finished(c)')
                  => /\ calls[c].pc = "collect"
                     /\ Unfinished(c) = {}
                     /\ Len(calls[c].results) = Len(corpus)
                     /\ \A i \in 1..Len(corpus) :
                           i \notin calls[c].io.lost
                              => calls[c].results[i] = [state |-> "ok", bytes |-> corpus[i]]]_vars

\* The first download failed while the second was queued; the second has
\* run to its end since, and the event is logged.
C16_Witness ==
    \E c \in DOMAIN calls :
        /\ calls[c].pc = "collect"
        /\ calls[c].io.lost = {1}
        /\ Len(calls[c].results) = 3
        /\ calls[c].results[2].state = "ok" /\ calls[c].results[3].state = "ok"
        /\ calls[c].log = <<LogQuery(calls[c].query), LogFiles(3)>>

\* C18: a call whose counting fails on a malformed pattern has fetched the
\* whole corpus and recorded count_start; it records no count_end, logs no
\* matched count and sends no response.  A finished call holds count_start
\* without count_end exactly when its counting failed.
C18_CountingFailureLeavesSpanOpen ==
    \A c \in DOMAIN calls :
        (IsCount(c) /\ Finished(c))
            => /\ calls[c].err = "re.error"
                  => /\ calls[c].status = "ERROR" /\ calls[c].sent = <<>>
                     /\ calls[c].events = <<"count_start">>
                     /\ calls[c].log = <<LogQuery(calls[c].query), LogFiles(Len(corpus))>>
                     /\ calls[c].io = IdleCall.io /\ Undecodable(corpus) = {}
                     /\ ~WellFormed(Lower(calls[c].query))
               /\ calls[c].err = "re.error"
                     <=> ("count_start" \in {calls[c].events[i] : i \in 1..Len(calls[c].events)}
                          /\ "count_end" \notin {calls[c].events[i] : i \in 1..Len(calls[c].events)})

\* The unbalanced bracket fails the counting of a corpus of two documents.
C18_Witness ==
    \E c \in DOMAIN calls :
        /\ IsCount(c) /\ Failed(c)
        /\ calls[c].query = <<"[">>
        /\ Len(corpus) = 2
        /\ calls[c].err = "re.error"
        /\ calls[c].events = <<"count_start">>

---------------------------------------------------------------------------
(* One call over a listing longer than the download pool.                  *)

MaxFetchBlobs == 9

\* Listings of up to MaxFetchBlobs blobs, "a" and the empty blob in turn.
FetchCorpora ==
    {[i \in 1..n |-> IF i % 2 = 1 THEN <<"a">> ELSE <<>>] : n \in 0..MaxFetchBlobs}
FetchQueries == {<<"a">>}

InitFetch ==
    /\ corpus \in FetchCorpora
    /\ calls = [c \in {1} |-> IdleCall]

NextFetch == \E c \in {1} : Arrive(c, FetchQueries) \/ Handle(c)

SpecFetch == InitFetch /\ [][NextFetch]_vars

\* C13: within the fetch of a call no more than 8 downloads run at any
\* moment, however long the listing; the downloads are submitted in the
\* order of the listing, one for each blob listed and none twice; and the
\* fetch returns one text for each blob listed, in that order.
C13_EightDownloadsOnePerBlob ==
    \A c \in DOMAIN calls :
        LET call == calls[c]
        IN  /\ Cardinality(Running(call.results)) <= 8
            /\ Len(call.results) <= Len(call.blobs)
            /\ \A i \in 1..Len(call.results) :
                  call.results[i].state = "ok" => call.results[i].bytes = corpus[i]
            /\ call.pc \in {"shutdown", "collect"}
                  => (call.blobs = corpus /\ Len(call.results) = Len(corpus))
            /\ call.pc \in {"span", "count", "return"}
                  => call.texts = Texts(corpus)

\* Nine blobs are listed and submitted: eight downloads run, the ninth
\* waits.
C13_Witness ==
    \E c \in DOMAIN calls :
        /\ Len(calls[c].blobs) = 9 /\ Len(calls[c].results) = 9
        /\ Cardinality(Running(calls[c].results)) = 8
        /\ calls[c].results[9].state = "queued"
        /\ calls[c].pc = "shutdown"

---------------------------------------------------------------------------
(* More calls than handlers: the handler pool of the server.               *)

MaxPoolCalls == 5

PoolCorpora == {<<>>}
PoolQueries == {<<>>}
PoolServices == {""}

InitPool ==
    /\ corpus \in PoolCorpora
    /\ calls = [c \in 1..MaxPoolCalls |-> IdleCall]

\* The handler of a GetMatchCount call runs from its first storage call to
\* its return or raise; it holds its handler until then.
Complete(c) ==
    /\ calls[c].pc = "get_bucket"
    /\ \E io \in StorageRuns(Len(corpus)) :
          calls' = [calls EXCEPT ![c] = GetMatchCountRun(corpus, calls[c].query, io)]
    /\ UNCHANGED corpus

NextPool ==
    \E c \in 1..MaxPoolCalls :
        \/ ArriveFrom(c, PoolQueries, {"Check"}, PoolServices)
        \/ Start(c)
        \/ Complete(c)
        \/ Check(c)

\* A free handler thread takes the call at the head of the queue, and a
\* Check handler, which waits for nothing, returns.  A storage call may
\* never return: no fairness for Complete.
PoolFairness ==
    \A c \in 1..MaxPoolCalls : WF_vars(Start(c)) /\ WF_vars(Check(c))

SpecPool == InitPool /\ [][NextPool]_vars /\ PoolFairness

HandledSet == {d \in DOMAIN calls : Handled(d)}
Waiting(c) == calls[c].pc = "queued"
AllBusy == Cardinality(HandledSet) = 4

\* C14: no more than 4 calls are being handled at any moment.  A call that
\* arrives is queued, also when the 4 handlers are busy, and stays queued
\* until a handler takes it: it is never dropped nor rejected.  A queued
\* call starts being handled, unless from some moment on the 4 handlers
\* stay busy for ever.
C14_FourHandlersRestQueued ==
    /\ [](Cardinality(HandledSet) <= 4)
    /\ [][\A c \in DOMAIN calls :
              /\ (calls[c].pc = "idle" /\ calls'[c].pc # "idle") => Waiting(c)'
              /\ Waiting(c) => (Waiting(c)' \/ Handled(c)')
              /\ (Waiting(c) /\ Handled(c)') => ~AllBusy]_vars
    /\ \A c \in 1..MaxPoolCalls : Waiting(c) ~> (Handled(c) \/ []AllBusy)

\* The fifth call arrived while four were handled; the first has ended
\* since and the fifth is being handled.
C14_Witness ==
    /\ calls[1].pc = "done"
    /\ \A c \in 2..5 : Handled(c)
    /\ IsCount(5)

IsCheck(c) == calls[c].method = "Check"

\* C17: a Check call is answered by a handler of the pool of 4: it is
\* answered only from a handler, and it gets a handler only when fewer than
\* 4 calls are being handled, so it waits for as long as 4 GetMatchCount
\* calls hold the handlers.  A waiting Check call is answered, unless from
\* some moment on the 4 handlers stay busy for ever.
C17_CheckWaitsForHandler ==
    /\ [][\A c \in DOMAIN calls :
              IsCheck(c) =>
                  /\ (~Finished(c) /\ Finished(c)') => Handled(c)
                  /\ (Waiting(c) /\ AllBusy /\ \A d \in HandledSet : calls'[d] = calls[d])
                        => Waiting(c)'
                  /\ (Waiting(c) /\ ~Waiting(c)') => (~AllBusy /\ calls'[c].pc = "check")]_vars
    /\ \A c \in 1..MaxPoolCalls :
          (IsCheck(c) /\ Waiting(c))
              ~> ((Succeeded(c) /\ calls[c].sent = <<[status |-> "SERVING"]>>) \/ []AllBusy)

\* Four GetMatchCount calls hold the handlers, each in its storage call;
\* the Check call that arrived after them waits.
C17_Witness ==
    /\ \A c \in 1..4 : IsCount(c) /\ calls[c].pc = "get_bucket"
    /\ IsCheck(5) /\ Waiting(5)

---------------------------------------------------------------------------
(* Termination, checked under SpecPool: the handler threads are scheduled  *)
(* fairly and a storage call may never return.                             *)

\* The handler of call c is in its storage calls.
AtStorage(c) == IsCount(c) /\ calls[c].pc = "get_bucket"
Ended(c) ==
    /\ Finished(c) /\ ~Handled(c)
    /\ \/ calls[c].status = "OK" /\ \E n \in 0..Cardinality(LinesOf(corpus)) : Returned(c, n)
       \/ calls[c].status = "ERROR" /\ calls[c].err # "" /\ calls[c].sent = <<>>

\* C19 as stated: an accepted GetMatchCount call ends with a count or an
\* error and gives its handler back, unless one of its own storage calls
\* never returns.
C19_Original ==
    \A c \in 1..MaxPoolCalls :
        (IsCount(c) /\ Waiting(c)) ~> (Ended(c) \/ []AtStorage(c))

\* C19, amended: an accepted GetMatchCount call ends with a count or an
\* error and gives its handler back, unless a storage call never returns:
\* one of its own, or one of a call that arrived before it and holds a
\* handler it waits for.  When every storage call returns or fails, every
\* accepted call ends.
C19_EndsUnlessStorageHangs ==
    \A c \in 1..MaxPoolCalls :
        (IsCount(c) /\ Waiting(c))
            ~> (Ended(c) \/ \E d \in 1..c : []AtStorage(d))

\* The fifth call waited for a handler, got one when an earlier call ended,
\* and has returned its count.
C19_Witness ==
    /\ \A c \in 1..5 : IsCount(c)
    /\ Ended(5) /\ Returned(5, 0)
    /\ \A c \in 1..3 : AtStorage(c)
    /\ Failed(4)

=============================================================================
